---- MODULE Spec2Model ----
(***************************************************************************)
(* A model of the session/query-orchestration core of loql / clidb.        *)
(*                                                                         *)
(* Two variants live in the repository and both are modelled here:         *)
(*   - clidb: src/src/clidb (database.py, cli.py, views.py): the embedded  *)
(*     engine runs in a separate process behind two queues (SpecClidb,     *)
(*     and SpecClidbFair with the scheduling of the process and the pump); *)
(*   - loql:  src/src/loql/app.py: the engine is in-process and is called  *)
(*     from exclusive thread workers (SpecLoql; SpecLoqlPatient is the     *)
(*     same app under a user who waits for each operation to finish,       *)
(*     SpecLoqlQuerying the app started on a file under a user who then    *)
(*     runs queries without waiting).                                      *)
(* The embedded engine itself is abstracted to a catalog of named objects. *)
(***************************************************************************)
EXTENDS Integers, Sequences, FiniteSets, TLC

\* ------------------------------------------------------------------ bounds
\* number of user interface actions in one run
MaxOps == 2
\* messages the UI may have pending in the controller's mailbox
MaxInbox == 2
\* worker threads alive at one time (loql)
MaxWorkers == 4
\* user interface actions in one run (loql)
MaxActions == 2
\* the largest --max-rows a run is started with
MaxRowLimit == 2

\* ------------------------------------------------------ program constants
\* Config.max_rows, the default of --max-rows (1000, scaled down)
DefaultMaxRows == 2
\* clidb's MAX_RESULT_ROWS (100, scaled down)
MAX_RESULT_ROWS == 2
\* clidb's MAX_CELL_LENGTH (100, scaled down)
MAX_CELL_LENGTH == 3

\* ------------------------------------------------------ files and queries
\* A file name is split as os.path.splitext / pathlib do: stem and last suffix.
File(stem, ext) == [stem |-> stem, ext |-> ext]

Files ==
  { File("Data", ".csv"), File("schemas", ".csv"), File("x.parquet", ".gz"),
    File("notes", ".txt"), File("log", ".json"), File("root", ".csv") }

\* what the reading library finds when it opens the file
FileConditions == {"ok", "missing", "malformed"}

\* str.lower() on the stems in use
Lower(s) == IF s = "Data" THEN "data" ELSE s

\* str.endswith(".parquet") on the stems in use
EndsWithParquet(s) == s = "x.parquet"

\* view_name[: -len(".parquet")]
StripParquet(s) == IF s = "x.parquet" THEN "x" ELSE s

\* Query texts, by what the engine does with them ("empty": the empty string,
\* "create_table": CREATE TABLE name with a column list, an empty table).
Q(op, name) == [op |-> op, name |-> name]

UserQueries ==
  { Q("select", "data"), Q("select", "t"), Q("create_table", "t"),
    Q("drop", "t"), Q("drop", "data"), Q("bad", ""), Q("empty", "") }

\* f'select * from "{view_name}"'
SelectAll(view_name) == Q("select", view_name)

\* ------------------------------------------------------------ the data
\* What a select over a name returns, most rows first: one column, each value
\* given by its string form, a sequence of characters.  "data" has more rows
\* than the row limits in use and a value longer than a cell; "t" has none.
Relation(name) ==
  CASE Lower(name) = "data" -> << << "1" >>, << "l", "o", "n", "g" >>, << "3" >> >>
    [] Lower(name) = "t" -> << >>
    [] OTHER -> << << "1" >>, << "2" >> >>

\* relation.columns / [col[0] for col in relation.description]
Columns(name) == << << "col", Lower(name) >> >>

\* relation.limit(n) taken as the whole relation
Limit_Unlimited(rows, n) == rows

\* relation.limit(n).fetchall()
Limit(rows, n) == SubSeq(rows, 1, IF Len(rows) < n THEN Len(rows) ELSE n)

\* ------------------------------------------------------ the engine session
\* The engine's catalog: identifiers are matched case-insensitively and kept
\* as written.  def tells a view over the engine's own catalog ("catalog")
\* from one over data ("data").
Keys ==
  {"schemas", "data", "x", "log", "notes", "t", "x.parquet", "clipboard", "root"}

NoObj == [name |-> "", kind |-> "none", def |-> ""]

Obj(name, kind, def) == [name |-> name, kind |-> kind, def |-> def]

Key(name) == Lower(name)

Defined(s) == {k \in Keys : s[k] # NoObj}

\* duckdb.connect(":memory:") followed by the creation of the helper view
Connect == [k \in Keys |-> IF k = "schemas" THEN Obj("schemas", "view", "catalog") ELSE NoObj]

\* relation.create_view(view_name) / con.register(view_name, frame): replaces a
\* view of that name, fails on a table of that name
CanCreateView(s, name) == s[Key(name)].kind # "table"

CreateView(s, name) == [s EXCEPT ![Key(name)] = Obj(name, "view", "data")]

\* The exception classes the engine and the reading libraries raise.
\* app.py:256 lists the ones a query can raise.
EngineErrorClasses == {"RuntimeError", "duckdb.Error"}

VARIABLES
  session,      \* the engine's catalog (self.con)
  pd,           \* whether the optional pandas import succeeded
  engineErr,    \* the class of the errors the installed engine raises
  \* --- clidb (separate process) ---
  inbox,        \* messages posted to the DatabaseController
  ctlPc,        \* position of the controller's handler
  ctlReq,       \* id of the request the running handler enqueued
  query_queue,  \* DatabaseProcess.query_queue
  result_queue, \* DatabaseProcess.result_queue
  dbPc,         \* position of the DatabaseProcess
  dbReq,        \* request the DatabaseProcess is executing
  nreq,         \* requests enqueued so far (request ids)
  nserved,      \* requests the DatabaseProcess has taken so far
  delivered,    \* the last response a handler took, with the request it answers
  uiViews,      \* payload of the last DatabaseViewsUpdate delivered
  uiResult,     \* payload of the last QueryResult delivered
  uiText,       \* payload of the last UpdateTextInput delivered
  doneDefined,  \* names defined in the session when the last answered request completed
  database_view, \* the DatabaseView tree, and whether its handler raised
  appRunning,   \* the UI process has not exited
  clipboard,    \* the --clipboard option
  nops,         \* user interface actions so far
  \* --- loql (in-process thread workers) ---
  max_rows,     \* config.max_rows
  workers,      \* the worker threads started by the @work methods
  loading,      \* data_table.loading
  grid,         \* what the results grid shows
  tree,         \* leaves of the data sources tree
  note,         \* the last notification
  lastCallback, \* the last call a worker made into the UI
  results_csv,  \* what results.csv holds
  appError      \* the exception the app exited with and the worker it left

clidbVars ==
  << inbox, ctlPc, ctlReq, query_queue, result_queue, dbPc, dbReq, nreq,
     nserved, delivered, uiViews, uiResult, uiText, doneDefined, database_view >>

loqlVars ==
  << max_rows, workers, loading, grid, tree, note, lastCallback, results_csv, appError >>

vars == << session, pd, engineErr, clidbVars, appRunning, clipboard, nops, loqlVars >>

\* ------------------------------------------------------------ worker threads
\* a worker thread: the method it runs, where it is, its arguments, whether
\* the worker manager has cancelled it (cleared: by action_clear), the state
\* of the file it reads, the catalog rows it has fetched, and the columns and
\* rows write_results was called with
Worker(kind, pc, q, save, f, view, seq) ==
  [kind |-> kind, pc |-> pc, q |-> q, save |-> save, f |-> f, view |-> view,
   seq |-> seq, cancelled |-> FALSE, cleared |-> FALSE, cond |-> "ok", snap |-> {},
   columns |-> << >>, rows |-> << >>]

NoCallback == [fn |-> "", kind |-> "", cleared |-> FALSE]

NoError == [exc |-> "", kind |-> ""]

\* the help table on_mount puts in the grid
HelpGrid ==
  [shows |-> "help", q |-> [op |-> "", name |-> ""], seq |-> 0,
   columns |-> << >>, rows |-> << >>, warned |-> FALSE]

\* results.csv before anything was written
NoFile == [q |-> [op |-> "", name |-> ""], seq |-> 0, lines |-> << >>]

\* the loql variables while the clidb variant runs
LoqlIdle ==
  /\ workers = {}
  /\ loading = FALSE
  /\ grid = HelpGrid
  /\ tree = {}
  /\ note = ""
  /\ lastCallback = NoCallback
  /\ results_csv = NoFile
  /\ appError = NoError
  /\ max_rows = DefaultMaxRows

\* ---------------------------------------------------------- engine calls
\* str(query_error) for a query the engine refuses
EngineMessage(q) == IF q.op = "bad" THEN "Parser Error" ELSE "Catalog Error"

\* con.query(text): the relation returned ("rows"), None for a statement
\* without a result set and for a text without a statement, or the engine's
\* error with its message.
EngineQuery(s, q) ==
  CASE q.op = "select" ->
         IF s[Key(q.name)] # NoObj
           THEN [exc |-> "ok", rel |-> "rows", msg |-> "", session |-> s]
           ELSE [exc |-> engineErr, rel |-> "", msg |-> EngineMessage(q), session |-> s]
    [] q.op = "create_table" ->
         IF s[Key(q.name)] = NoObj
           THEN [exc |-> "ok", rel |-> "None", msg |-> "",
                 session |-> [s EXCEPT ![Key(q.name)] = Obj(q.name, "table", "data")]]
           ELSE [exc |-> engineErr, rel |-> "", msg |-> EngineMessage(q), session |-> s]
    [] q.op = "drop" ->
         IF s[Key(q.name)] # NoObj
           THEN [exc |-> "ok", rel |-> "None", msg |-> "",
                 session |-> [s EXCEPT ![Key(q.name)] = NoObj]]
           ELSE [exc |-> engineErr, rel |-> "", msg |-> EngineMessage(q), session |-> s]
    [] q.op = "empty" -> [exc |-> "ok", rel |-> "None", msg |-> "", session |-> s]
    [] OTHER -> [exc |-> engineErr, rel |-> "", msg |-> EngineMessage(q), session |-> s]

\* relation-from-file .create_view(view_name), by the state of the file
NativeLoad(s, view_name, cond) ==
  IF cond = "ok" /\ CanCreateView(s, view_name)
    THEN [exc |-> "ok", session |-> CreateView(s, view_name)]
    ELSE [exc |-> engineErr, session |-> s]

PandasTypes == {".parquet", ".json", ".jsonl", ".xls", ".xlsx"}

\* the pandas fallback: no pandas, no reader for the suffix, or the reader's
\* own failure
LoadFileWithPandas(s, file_type, view_name, cond) ==
  IF ~pd THEN [exc |-> "ImportError", session |-> s]
  ELSE IF file_type \notin PandasTypes THEN [exc |-> "KeyError", session |-> s]
  ELSE IF cond = "missing" THEN [exc |-> "FileNotFoundError", session |-> s]
  ELSE IF cond = "malformed" THEN [exc |-> "ValueError", session |-> s]
  ELSE IF ~CanCreateView(s, view_name) THEN [exc |-> engineErr, session |-> s]
  ELSE [exc |-> "ok", session |-> CreateView(s, view_name)]

\* the dispatch on the resolved suffix
DispatchLoad(s, file_type, view_name, cond) ==
  IF file_type \in {".csv", ".parquet"}
    THEN NativeLoad(s, view_name, cond)
    ELSE LoadFileWithPandas(s, file_type, view_name, cond)

\* ------------------------------------------------ clidb: DatabaseProcess
R(tag, val) == [tag |-> tag, val |-> val, columns |-> << >>, cells |-> << >>]

NoQ == Q("", "")
NoF == File("", "")
Request(id, type, q, f) == [id |-> id, type |-> type, q |-> q, f |-> f]
NoReq == Request(0, "", NoQ, NoF)
EndQueueSentinel == "end_queue_sentinel"

\* view name and suffix as __load_file_as_view resolves them
ClidbViewName(f) ==
  IF f.ext = ".gz" /\ EndsWithParquet(f.stem) THEN StripParquet(f.stem) ELSE f.stem

ClidbFileType(f) ==
  IF f.ext = ".gz" /\ EndsWithParquet(f.stem) THEN ".parquet" ELSE f.ext

LoadFileAsView(s, f, cond) ==
  DispatchLoad(s, ClidbFileType(f), ClidbViewName(f), cond)

\* the marker for a cell of a data file read where a catalog row was expected
DataCell == "<cell>"

\* __get_views: column 2 of the rows of the view "schemas", which run()
\* defines over duckdb_views.  wide: the rows have a column 2.
GetViews(s, wide) ==
  IF s["schemas"] = NoObj THEN [exc |-> engineErr, views |-> {}]
  ELSE IF s["schemas"].def = "catalog"
    THEN [exc |-> "ok", views |-> {s[k].name : k \in {d \in Defined(s) : s[d].kind = "view"}}]
  ELSE IF wide THEN [exc |-> "ok", views |-> {DataCell}]
  ELSE [exc |-> "IndexError", views |-> {}]

QueryCaught == {"AttributeError", "RuntimeError"}

\* __format_cell without the slice
FormatCell_Whole(value) == value

\* __format_cell: str(value)[:MAX_CELL_LENGTH]
FormatCell(value) ==
  SubSeq(value, 1, IF Len(value) < MAX_CELL_LENGTH THEN Len(value) ELSE MAX_CELL_LENGTH)

\* the Table __query builds: a column per result column, a row of formatted
\* cells per row of the relation limited to MAX_RESULT_ROWS
QueryTable(name) ==
  LET rows == Limit(Relation(name), MAX_RESULT_ROWS) IN
  [tag |-> "Table", val |-> name, columns |-> Columns(name),
   cells |-> [i \in 1..Len(rows) |-> FormatCell(rows[i])]]

\* __query
DbQuery(s, q) ==
  LET e == EngineQuery(s, q) IN
  IF e.exc = "ok"
    THEN [exc |-> "ok", session |-> e.session,
          result |-> IF e.rel = "None" THEN R("None", "") ELSE QueryTable(q.name)]
  ELSE IF e.exc \in QueryCaught
    THEN [exc |-> "ok", session |-> e.session, result |-> R("QueryError", e.msg)]
  ELSE [exc |-> e.exc, session |-> e.session, result |-> R("None", "")]

LoadCaught == {"FileNotFoundError", "KeyError", "RuntimeError"}

\* the FileObj branch of __await_query
DbLoad(s, f, cond) ==
  LET l == LoadFileAsView(s, f, cond) IN
  IF l.exc = "ok"
    THEN [exc |-> "ok", session |-> l.session, result |-> R("Str", ClidbViewName(f))]
  ELSE IF l.exc \in LoadCaught
    THEN [exc |-> "ok", session |-> l.session, result |-> R("QueryError", "Failed to load")]
  ELSE IF l.exc = "ImportError"
    THEN [exc |-> "ok", session |-> l.session, result |-> R("QueryError", "Please install")]
  ELSE [exc |-> l.exc, session |-> l.session, result |-> R("None", "")]

\* one request, as the body of the loop of __await_query handles it
DbHandle(s, req, cond) ==
  CASE req.type = "None" -> [exc |-> "ok", session |-> s, result |-> R("EmptyStr", "")]
    [] req.type = "str" -> DbQuery(s, req.q)
    [] req.type = "FileObj" -> DbLoad(s, req.f, cond)
    [] OTHER -> [exc |-> "ok", session |-> s, result |-> R("None", "")]

\* the names of the objects of a session
Names(s) == {s[k].name : k \in Defined(s)}

\* (result, views) as put on the result queue, with the request it answers
\* and the names defined before and after the operation
Response(req, result, views, before, defined, prev) ==
  [req |-> req, result |-> result, views |-> views, before |-> before,
   defined |-> defined, prev |-> prev]

NoResponse == Response(NoReq, R("None", ""), {}, {}, {}, "")

\* the name of the data view a load of the request's file would replace
Replaced(s, req) ==
  IF req.type = "FileObj" /\ s[Key(ClidbViewName(req.f))].def = "data"
                         /\ s[Key(ClidbViewName(req.f))].kind = "view"
    THEN s[Key(ClidbViewName(req.f))].name
    ELSE ""

\* run(): connect, define the helper view, load the clipboard
DbRun ==
  /\ appRunning /\ dbPc = "start"
  /\ \E cond \in {"ok", "malformed"} :
       IF clipboard /\ pd
         THEN IF cond = "ok"
                THEN session' = CreateView(Connect, "clipboard") /\ dbPc' = "get"
                ELSE session' = Connect /\ dbPc' = "crashed"
         ELSE session' = Connect /\ dbPc' = "get"
  /\ UNCHANGED << pd, engineErr, inbox, ctlPc, ctlReq, query_queue, result_queue,
                  dbReq, nreq, nserved, delivered, uiViews, uiResult, uiText,
                  doneDefined, appRunning, clipboard, nops >>
  /\ UNCHANGED << database_view, loqlVars >>

\* query_obj = self.query_queue.get(), and the test for the sentinel
DbGet ==
  /\ appRunning /\ dbPc = "get" /\ query_queue # << >>
  /\ dbReq' = Head(query_queue)
  /\ query_queue' = Tail(query_queue)
  /\ nserved' = nserved + 1
  /\ dbPc' = IF Head(query_queue).type = EndQueueSentinel THEN "stopped" ELSE "exec"
  /\ UNCHANGED << session, pd, engineErr, inbox, ctlPc, ctlReq, result_queue,
                  nreq, delivered, uiViews, uiResult, uiText, doneDefined,
                  appRunning, clipboard, nops >>
  /\ UNCHANGED << database_view, loqlVars >>

\* the rest of the loop body: the operation, __get_views, result_queue.put
DbExec ==
  /\ appRunning /\ dbPc = "exec"
  /\ \E cond \in FileConditions, wide \in BOOLEAN :
       LET h == DbHandle(session, dbReq, cond)
           v == GetViews(h.session, wide)
       IN /\ session' = h.session
          /\ IF h.exc = "ok" /\ v.exc = "ok"
               THEN /\ result_queue' = Append(result_queue,
                          Response(dbReq, h.result, v.views, Names(session), Names(h.session),
                                   Replaced(session, dbReq)))
                    /\ dbPc' = "get"
               ELSE /\ result_queue' = result_queue
                    /\ dbPc' = "crashed"
  /\ dbReq' = NoReq
  /\ UNCHANGED << pd, engineErr, inbox, ctlPc, ctlReq, query_queue, nreq, nserved,
                  delivered, uiViews, uiResult, uiText, doneDefined, appRunning,
                  clipboard, nops >>
  /\ UNCHANGED << database_view, loqlVars >>

\* --------------------------------------------- clidb: DatabaseController
Msg(type, q, f) == [type |-> type, q |-> q, f |-> f]

\* the truth value of a result (None and "" are false, a table or a
\* non-empty error text is true)
Truthy(r) == r.tag \notin {"None", "EmptyStr"}

NoViews == {"<none>"}

\* DatabaseView("Views"): the root node has data = "root"; on_mount adds the
\* node "schemas" under it.  views: the data of the nodes under the root.
MountedView == [data |-> "root", views |-> {"schemas"}, raised |-> FALSE]

\* DatabaseView.handle_database_views_update: the new views are added after
\* retired_views.remove(self.data), which raises KeyError when the root's data
\* is not among the retired views; nothing is ever removed
HandleDatabaseViewsUpdate(dv, views) ==
  LET current_views == {dv.data} \cup dv.views
      new_views == views \ current_views
      retired_views == current_views \ views
  IN IF dv.data \in retired_views
       THEN [dv EXCEPT !.views = dv.views \cup new_views]
       ELSE [dv EXCEPT !.raised = TRUE]

\* handle_query without the await of the response (the handler returns at once)
HandleQueryPut_NoAwait ==
  /\ appRunning /\ ctlPc = "idle" /\ inbox # << >> /\ Head(inbox).type = "Query"
  /\ query_queue' = Append(query_queue, Request(nreq + 1, "str", Head(inbox).q, NoF))
  /\ nreq' = nreq + 1
  /\ inbox' = Tail(inbox)
  /\ UNCHANGED << session, pd, engineErr, ctlPc, ctlReq, result_queue, dbPc, dbReq,
                  nserved, delivered, uiViews, uiResult, uiText, doneDefined,
                  appRunning, clipboard, nops >>
  /\ UNCHANGED << database_view, loqlVars >>

\* handle_query up to the await of result_queue.get
HandleQueryPut ==
  /\ appRunning /\ ctlPc = "idle" /\ inbox # << >> /\ Head(inbox).type = "Query"
  /\ query_queue' = Append(query_queue, Request(nreq + 1, "str", Head(inbox).q, NoF))
  /\ nreq' = nreq + 1
  /\ ctlReq' = nreq + 1
  /\ ctlPc' = "await_query"
  /\ inbox' = Tail(inbox)
  /\ UNCHANGED << session, pd, engineErr, result_queue, dbPc, dbReq, nserved,
                  delivered, uiViews, uiResult, uiText, doneDefined, appRunning,
                  clipboard, nops >>
  /\ UNCHANGED << database_view, loqlVars >>

\* handle_query from the response on: DatabaseViewsUpdate, then QueryResult
HandleQueryEmit ==
  /\ appRunning /\ ctlPc = "await_query" /\ result_queue # << >>
  /\ LET resp == Head(result_queue) IN
       /\ delivered' = [mine |-> ctlReq, resp |-> resp,
                         emits |-> << "DatabaseViewsUpdate" >> \o
                                   (IF Truthy(resp.result) THEN << "QueryResult" >> ELSE << >>)]
       /\ uiViews' = resp.views
       /\ database_view' = HandleDatabaseViewsUpdate(database_view, resp.views)
       /\ appRunning' = ~HandleDatabaseViewsUpdate(database_view, resp.views).raised
       /\ doneDefined' = resp.defined
       /\ uiResult' = IF Truthy(resp.result) THEN resp.result ELSE uiResult
  /\ result_queue' = Tail(result_queue)
  /\ ctlPc' = "idle"
  /\ ctlReq' = 0
  /\ UNCHANGED << session, pd, engineErr, inbox, query_queue, dbPc, dbReq, nreq,
                  nserved, uiText, clipboard, nops >>
  /\ UNCHANGED loqlVars

\* handle_open_file up to the await of result_queue.get
HandleOpenFilePut ==
  /\ appRunning /\ ctlPc = "idle" /\ inbox # << >> /\ Head(inbox).type = "OpenFile"
  /\ query_queue' = Append(query_queue, Request(nreq + 1, "FileObj", NoQ, Head(inbox).f))
  /\ nreq' = nreq + 1
  /\ ctlReq' = nreq + 1
  /\ ctlPc' = "await_file"
  /\ inbox' = Tail(inbox)
  /\ UNCHANGED << session, pd, engineErr, result_queue, dbPc, dbReq, nserved,
                  delivered, uiViews, uiResult, uiText, doneDefined, appRunning,
                  clipboard, nops >>
  /\ UNCHANGED << database_view, loqlVars >>

\* handle_open_file from the response on
HandleOpenFileEmit ==
  /\ appRunning /\ ctlPc = "await_file" /\ result_queue # << >>
  /\ LET resp == Head(result_queue) IN
       /\ delivered' = [mine |-> ctlReq, resp |-> resp,
                         emits |-> (IF resp.result.tag = "QueryError"
                                      THEN << "QueryResult" >> ELSE << "UpdateTextInput" >>) \o
                                   (IF resp.views # {}
                                      THEN << "DatabaseViewsUpdate" >> ELSE << >>)]
       /\ IF resp.result.tag = "QueryError"
            THEN /\ uiResult' = resp.result
                 /\ UNCHANGED << uiText, inbox >>
            ELSE /\ uiText' = SelectAll(resp.result.val)
                 /\ inbox' = Append(inbox, Msg("Query", SelectAll(resp.result.val), NoF))
                 /\ UNCHANGED uiResult
       /\ IF resp.views # {}
            THEN /\ uiViews' = resp.views
                 /\ doneDefined' = resp.defined
                 /\ database_view' = HandleDatabaseViewsUpdate(database_view, resp.views)
                 /\ appRunning' = ~HandleDatabaseViewsUpdate(database_view, resp.views).raised
            ELSE UNCHANGED << uiViews, doneDefined, database_view, appRunning >>
  /\ result_queue' = Tail(result_queue)
  /\ ctlPc' = "idle"
  /\ ctlReq' = 0
  /\ UNCHANGED << session, pd, engineErr, query_queue, dbPc, dbReq, nreq, nserved,
                  clipboard, nops >>
  /\ UNCHANGED loqlVars

\* ------------------------------------------------------- clidb: the CliDB app
\* action_query: the text of the query input is posted as a Query
ActionQuery ==
  /\ appRunning /\ nops < MaxOps /\ Len(inbox) < MaxInbox
  /\ \E q \in UserQueries : inbox' = Append(inbox, Msg("Query", q, NoF))
  /\ nops' = nops + 1
  /\ UNCHANGED << session, pd, engineErr, ctlPc, ctlReq, query_queue, result_queue,
                  dbPc, dbReq, nreq, nserved, delivered, uiViews, uiResult, uiText,
                  doneDefined, appRunning, clipboard >>
  /\ UNCHANGED << database_view, loqlVars >>

\* handle_file_click: "Loading..." is shown and an OpenFile is posted
HandleFileClick ==
  /\ appRunning /\ nops < MaxOps /\ Len(inbox) < MaxInbox
  /\ \E f \in Files : inbox' = Append(inbox, Msg("OpenFile", NoQ, f))
  /\ uiResult' = R("Text", "Loading...")
  /\ nops' = nops + 1
  /\ UNCHANGED << session, pd, engineErr, ctlPc, ctlReq, query_queue, result_queue,
                  dbPc, dbReq, nreq, nserved, delivered, uiViews, uiText,
                  doneDefined, appRunning, clipboard >>
  /\ UNCHANGED << database_view, loqlVars >>

\* the quit binding: the UI process exits; the daemon DatabaseProcess is
\* terminated with it, wherever it is
Quit ==
  /\ appRunning
  /\ appRunning' = FALSE
  /\ UNCHANGED << session, pd, engineErr, clidbVars, clipboard, nops >>
  /\ UNCHANGED loqlVars

\* DatabaseController.__init__ and CliDB.on_load: the process is started and,
\* with --clipboard, a first Query is posted
InitClidb ==
  /\ pd \in BOOLEAN
  /\ engineErr \in EngineErrorClasses
  /\ clipboard \in BOOLEAN
  /\ session = [k \in Keys |-> NoObj]
  /\ inbox = IF clipboard THEN << Msg("Query", SelectAll("clipboard"), NoF) >> ELSE << >>
  /\ ctlPc = "idle"
  /\ ctlReq = 0
  /\ query_queue = << >>
  /\ result_queue = << >>
  /\ dbPc = "start"
  /\ dbReq = NoReq
  /\ nreq = 0
  /\ nserved = 0
  /\ delivered = [mine |-> 0, resp |-> NoResponse, emits |-> << >>]
  /\ uiViews = NoViews
  /\ uiResult = R("None", "")
  /\ uiText = NoQ
  /\ doneDefined = {}
  /\ database_view = MountedView
  /\ appRunning = TRUE
  /\ nops = 0
  /\ LoqlIdle

NextClidb ==
  \/ DbRun
  \/ DbGet
  \/ DbExec
  \/ HandleQueryPut
  \/ HandleQueryEmit
  \/ HandleOpenFilePut
  \/ HandleOpenFileEmit
  \/ ActionQuery
  \/ HandleFileClick
  \/ Quit

SpecClidb == InitClidb /\ [][NextClidb]_vars

\* The same program with its scheduling: the daemon process runs whenever it
\* can, and the controller's message pump handles the next message whenever
\* one is ready.  The user's actions (a query, a click, quit) may never happen.
SpecClidbFair ==
  /\ InitClidb
  /\ [][NextClidb]_vars
  /\ WF_vars(DbRun)
  /\ WF_vars(DbGet)
  /\ WF_vars(DbExec)
  /\ WF_vars(HandleQueryPut)
  /\ WF_vars(HandleQueryEmit)
  /\ WF_vars(HandleOpenFilePut)
  /\ WF_vars(HandleOpenFileEmit)

\* ----------------------------------------------------------- loql: LoQL
\* the clidb variables while the loql variant runs
ClidbIdle ==
  /\ inbox = << >>
  /\ ctlPc = "idle"
  /\ ctlReq = 0
  /\ query_queue = << >>
  /\ result_queue = << >>
  /\ dbPc = "start"
  /\ dbReq = NoReq
  /\ nreq = 0
  /\ nserved = 0
  /\ delivered = [mine |-> 0, resp |-> NoResponse, emits |-> << >>]
  /\ uiViews = NoViews
  /\ uiResult = R("None", "")
  /\ uiText = NoQ
  /\ doneDefined = {}
  /\ database_view = MountedView

\* a call of a @work(exclusive=True, thread=True) method: the worker manager
\* cancels the workers it has, whose threads run on, and starts the new one
StartExclusive(ws, w) == {[x EXCEPT !.cancelled = TRUE] : x \in ws} \cup {w}

\* the worker's function has returned
Finish(ws, w) == ws \ {w}

\* the worker goes on to another position
Move(ws, w, pc) == (ws \ {w}) \cup {[w EXCEPT !.pc = pc]}

\* workers that start another worker before they end
Spawning(ws) ==
  {x \in ws : x.kind \in {"open_file", "execute_query", "load_clipboard"}}

\* the slots left for a user interface action that needs `need` of them
Room(ws, need) == MaxWorkers - Cardinality(ws) >= need + Cardinality(Spawning(ws))

\* positions inside a call on self.con
EnginePcs ==
  {"in_load", "in_schemas", "in_columns", "in_query", "in_ddl_schemas", "in_fetch",
   "in_register"}

InEngine(ws) == {x \in ws : x.pc \in EnginePcs}

\* a call on the connection that overlaps another thread's call may fail
RaceOutcomes(w) == IF InEngine(workers) \ {w} # {} THEN BOOLEAN ELSE {FALSE}

\* view name and suffix as open_file resolves them
LoqlViewName(f) ==
  IF f.ext = ".gz" /\ EndsWithParquet(Lower(f.stem))
    THEN StripParquet(Lower(f.stem))
    ELSE Lower(f.stem)

LoqlFileType(f) ==
  IF f.ext = ".gz" /\ EndsWithParquet(Lower(f.stem)) THEN ".parquet" ELSE f.ext

\* the rows of the view "schemas" as load_metadata reads them into View(name,
\* type): set_up_database defines it over duckdb_views and duckdb_tables.
\* wide: the rows have a second column.
CatalogRows(s, wide) ==
  IF s["schemas"] = NoObj THEN [exc |-> engineErr, rows |-> {}]
  ELSE IF s["schemas"].def = "catalog"
    THEN [exc |-> "ok", rows |-> {<< s[k].name, s[k].kind >> : k \in Defined(s)}]
  ELSE IF wide THEN [exc |-> "ok", rows |-> {<< DataCell, DataCell >>}]
  ELSE [exc |-> "IndexError", rows |-> {}]

\* update_metadata: the tree is cleared and refilled without the helper view
UpdateMetadataTree(views) == {v \in views : v[1] # "schemas"}

Callback(fn, w) == [fn |-> fn, kind |-> w.kind, cleared |-> w.cleared]

\* an exception leaves the worker's function: the worker ends, and unless it
\* was cancelled the app exits with the error
Raise(w, exc) ==
  /\ workers' = Finish(workers, w)
  /\ IF w.cancelled
       THEN UNCHANGED << appError, appRunning >>
       ELSE appError' = [exc |-> exc, kind |-> w.kind] /\ appRunning' = FALSE

\* the exceptions execute_query catches
LoqlQueryCaught == {"AttributeError", "RuntimeError", "ValueError", "duckdb.Error"}

\* action_open_file and the modal's dismiss(path): open_file(path) is started
ActionOpenFile ==
  /\ appRunning /\ nops < MaxActions /\ Room(workers, 2)
  /\ \E f \in Files, cond \in {"ok", "malformed"} :
       workers' = StartExclusive(workers,
                    [Worker("open_file", "start", NoQ, FALSE, f, "", nops + 1)
                       EXCEPT !.cond = cond])
  /\ nops' = nops + 1
  /\ UNCHANGED << session, pd, engineErr, clidbVars, appRunning, clipboard, max_rows, loading,
                  grid, tree, note, lastCallback, results_csv, appError >>

\* action_execute_query / action_write_results
ActionExecuteQuery ==
  /\ appRunning /\ nops < MaxActions /\ Room(workers, 2)
  /\ \E q \in UserQueries, save \in BOOLEAN :
       workers' = StartExclusive(workers,
                    Worker("execute_query", "start", q, save, NoF, "", nops + 1))
  /\ loading' = TRUE
  /\ nops' = nops + 1
  /\ UNCHANGED << session, pd, engineErr, clidbVars, appRunning, clipboard, max_rows, grid,
                  tree, note, lastCallback, results_csv, appError >>

\* action_clear: workers.cancel_all() and loading = False
ActionClear ==
  /\ appRunning /\ workers # {}
  /\ workers' = {[x EXCEPT !.cancelled = TRUE, !.cleared = TRUE] : x \in workers}
  /\ loading' = FALSE
  /\ UNCHANGED << session, pd, engineErr, clidbVars, appRunning, clipboard, max_rows, nops,
                  grid, tree, note, lastCallback, results_csv, appError >>

\* on_tree_node_selected: load_metadata(node.data); the root's data is None ("")
OnTreeNodeSelected ==
  /\ appRunning /\ nops < MaxActions /\ Room(workers, 1)
  /\ \E view \in {v[1] : v \in tree} \cup {""} :
       workers' = StartExclusive(workers,
                    Worker("load_metadata", "start", NoQ, FALSE, NoF, view, nops + 1))
  /\ nops' = nops + 1
  /\ UNCHANGED << session, pd, engineErr, clidbVars, appRunning, clipboard, max_rows, loading,
                  grid, tree, note, lastCallback, results_csv, appError >>

\* open_file up to its call on the connection; the pandas reader runs first
OpenFileEnter(w) ==
  /\ appRunning /\ w \in workers /\ w.kind = "open_file" /\ w.pc = "start"
  /\ LET l == DispatchLoad(session, LoqlFileType(w.f), LoqlViewName(w.f), w.cond)
     IN IF l.exc \in {"ImportError", "KeyError", "FileNotFoundError", "ValueError"}
          THEN Raise(w, l.exc)
          ELSE /\ workers' = Move(workers, w, "in_load")
               /\ UNCHANGED << appError, appRunning >>
  /\ UNCHANGED << session, pd, engineErr, clidbVars, clipboard, max_rows, nops, loading, grid,
                  tree, note, lastCallback, results_csv >>

\* open_file from the return of create_view / register on: load_metadata(view_name)
OpenFileReturn(w) ==
  /\ appRunning /\ w \in workers /\ w.kind = "open_file" /\ w.pc = "in_load"
  /\ \E raced \in RaceOutcomes(w) :
       LET l == DispatchLoad(session, LoqlFileType(w.f), LoqlViewName(w.f), w.cond)
       IN IF raced \/ l.exc # "ok"
            THEN Raise(w, engineErr) /\ UNCHANGED session
            ELSE /\ session' = l.session
                 /\ workers' = StartExclusive(Finish(workers, w),
                      Worker("load_metadata", "start", NoQ, FALSE, NoF,
                             LoqlViewName(w.f), w.seq))
                 /\ UNCHANGED << appError, appRunning >>
  /\ UNCHANGED << pd, engineErr, clidbVars, clipboard, max_rows, nops, loading, grid, tree,
                  note, lastCallback, results_csv >>

\* load_metadata up to con.view("schemas").fetchall()
LoadMetadataEnter(w) ==
  /\ appRunning /\ w \in workers /\ w.kind = "load_metadata" /\ w.pc = "start"
  /\ workers' = Move(workers, w, "in_schemas")
  /\ UNCHANGED << session, pd, engineErr, clidbVars, appRunning, clipboard, max_rows, nops,
                  loading, grid, tree, note, lastCallback, results_csv, appError >>

\* load_metadata from the catalog rows on: update_metadata(views, None) for no
\* view, else the query of the view's columns
LoadMetadataSchemas(w) ==
  /\ appRunning /\ w \in workers /\ w.kind = "load_metadata" /\ w.pc = "in_schemas"
  /\ \E raced \in RaceOutcomes(w), wide \in BOOLEAN :
       LET c == CatalogRows(session, wide)
       IN IF raced \/ c.exc # "ok"
            THEN /\ Raise(w, IF raced THEN engineErr ELSE c.exc)
                 /\ UNCHANGED << tree, lastCallback >>
          ELSE IF w.view = ""
            THEN /\ tree' = UpdateMetadataTree(c.rows)
                 /\ lastCallback' = Callback("update_metadata", w)
                 /\ workers' = Finish(workers, w)
                 /\ UNCHANGED << appError, appRunning >>
          ELSE /\ workers' = (workers \ {w}) \cup {[w EXCEPT !.pc = "in_columns", !.snap = c.rows]}
               /\ UNCHANGED << tree, lastCallback, appError, appRunning >>
  /\ UNCHANGED << session, pd, engineErr, clidbVars, clipboard, max_rows, nops, loading, grid,
                  note, results_csv >>

\* load_metadata from the columns on: update_metadata(views, columns)
LoadMetadataColumns(w) ==
  /\ appRunning /\ w \in workers /\ w.kind = "load_metadata" /\ w.pc = "in_columns"
  /\ \E raced \in RaceOutcomes(w) :
       IF raced
         THEN Raise(w, engineErr) /\ UNCHANGED << tree, lastCallback >>
         ELSE /\ tree' = UpdateMetadataTree(w.snap)
              /\ lastCallback' = Callback("update_metadata", w)
              /\ workers' = Finish(workers, w)
              /\ UNCHANGED << appError, appRunning >>
  /\ UNCHANGED << session, pd, engineErr, clidbVars, clipboard, max_rows, nops, loading, grid,
                  note, results_csv >>

\* notify_complete(message, title) called from a worker
NotifyComplete(w, title) ==
  /\ loading' = FALSE
  /\ note' = title
  /\ lastCallback' = Callback("notify_complete", w)

\* update_results(columns, rows) called from a worker: the grid is refilled and
\* a warning is notified when the rows are as many as config.max_rows
UpdateResults(w, columns, rows) ==
  /\ grid' = [shows |-> "rows", q |-> w.q, seq |-> w.seq, columns |-> columns,
              rows |-> rows, warned |-> Len(rows) = max_rows]
  /\ loading' = FALSE
  /\ note' = IF Len(rows) = max_rows THEN "Warning" ELSE note
  /\ lastCallback' = Callback("update_results", w)

\* csv.writer without the writerow(columns)
CsvLines_NoHeader(columns, rows) == rows

\* csv.writer: writerow(columns), then writerows(rows)
CsvLines(columns, rows) == << columns >> \o rows

\* execute_query up to con.query(query)
ExecuteQueryEnter(w) ==
  /\ appRunning /\ w \in workers /\ w.kind = "execute_query" /\ w.pc = "start"
  /\ workers' = Move(workers, w, "in_query")
  /\ UNCHANGED << session, pd, engineErr, clidbVars, appRunning, clipboard, max_rows, nops,
                  loading, grid, tree, note, lastCallback, results_csv, appError >>

\* execute_query from the return of con.query on: the error is notified, or the
\* worker goes on to read the catalog (no relation) or to fetch the rows
ExecuteQueryReturn(w) ==
  /\ appRunning /\ w \in workers /\ w.kind = "execute_query" /\ w.pc = "in_query"
  /\ \E raced \in RaceOutcomes(w) :
       LET e == EngineQuery(session, w.q) IN
       IF raced \/ e.exc # "ok"
         THEN /\ UNCHANGED session
              /\ IF engineErr \in LoqlQueryCaught
                   THEN /\ NotifyComplete(w, "Error")
                        /\ workers' = Finish(workers, w)
                        /\ UNCHANGED << appError, appRunning >>
                   ELSE /\ Raise(w, engineErr)
                        /\ UNCHANGED << loading, note, lastCallback >>
         ELSE /\ session' = e.session
              /\ workers' = Move(workers, w,
                   IF e.rel = "None" THEN "in_ddl_schemas" ELSE "in_fetch")
              /\ UNCHANGED << loading, note, lastCallback, appError, appRunning >>
  /\ UNCHANGED << pd, engineErr, clidbVars, clipboard, max_rows, nops, grid, tree, results_csv >>

\* execute_query, no relation: con.view("schemas").fetchall(), then
\* call_from_thread(load_metadata) and notify_complete("Statement successful")
ExecuteQueryDdl(w) ==
  /\ appRunning /\ w \in workers /\ w.kind = "execute_query" /\ w.pc = "in_ddl_schemas"
  /\ \E raced \in RaceOutcomes(w) :
       IF raced \/ session["schemas"] = NoObj
         THEN /\ NotifyComplete(w, "Error")
              /\ workers' = Finish(workers, w)
         ELSE /\ NotifyComplete(w, "Success")
              /\ workers' = StartExclusive(Finish(workers, w),
                   Worker("load_metadata", "start", NoQ, FALSE, NoF, "", w.seq))
  /\ UNCHANGED << session, pd, engineErr, clidbVars, appRunning, clipboard, max_rows, nops,
                  grid, tree, results_csv, appError >>

\* execute_query, a relation: limit, description, fetchall, then write_results
\* for a save and update_results otherwise
ExecuteQueryFetch(w) ==
  /\ appRunning /\ w \in workers /\ w.kind = "execute_query" /\ w.pc = "in_fetch"
  /\ \E raced \in RaceOutcomes(w) :
       IF raced
         THEN /\ NotifyComplete(w, "Error")
              /\ workers' = Finish(workers, w)
              /\ UNCHANGED grid
       ELSE IF w.save
         THEN /\ workers' = StartExclusive(Finish(workers, w),
                   [Worker("write_results", "start", w.q, TRUE, NoF, "", w.seq)
                      EXCEPT !.columns = Columns(w.q.name),
                             !.rows = Relation(w.q.name)])
              /\ UNCHANGED << grid, loading, note, lastCallback >>
       ELSE /\ UpdateResults(w, Columns(w.q.name), Limit(Relation(w.q.name), max_rows))
            /\ workers' = Finish(workers, w)
  /\ UNCHANGED << session, pd, engineErr, clidbVars, appRunning, clipboard, max_rows, nops,
                  tree, results_csv, appError >>

\* write_results: results.csv is written, then notify_complete; a failure of
\* open or write leaves the function
WriteResults(w) ==
  /\ appRunning /\ w \in workers /\ w.kind = "write_results" /\ w.pc = "start"
  /\ \E io \in {"ok", "OSError"} :
       IF io = "ok"
         THEN /\ results_csv' = [q |-> w.q, seq |-> w.seq,
                                  lines |-> CsvLines(w.columns, w.rows)]
              /\ NotifyComplete(w, "Success")
              /\ workers' = Finish(workers, w)
              /\ UNCHANGED << appError, appRunning >>
         ELSE /\ Raise(w, io)
              /\ UNCHANGED << results_csv, loading, note, lastCallback >>
  /\ UNCHANGED << session, pd, engineErr, clidbVars, clipboard, max_rows, nops, grid, tree >>

\* load_clipboard up to con.register: pd.read_clipboard()
LoadClipboardRead(w) ==
  /\ appRunning /\ w \in workers /\ w.kind = "load_clipboard" /\ w.pc = "start"
  /\ \E cond \in {"ok", "malformed"} :
       IF cond = "ok"
         THEN /\ workers' = Move(workers, w, "in_register")
              /\ UNCHANGED << appError, appRunning >>
         ELSE Raise(w, "ClipboardError")
  /\ UNCHANGED << session, pd, engineErr, clidbVars, clipboard, max_rows, nops, loading, grid,
                  tree, note, lastCallback, results_csv >>

\* load_clipboard from the return of con.register on: the leaf is added and
\* load_metadata("clipboard") started
LoadClipboardRegister(w) ==
  /\ appRunning /\ w \in workers /\ w.kind = "load_clipboard" /\ w.pc = "in_register"
  /\ \E raced \in RaceOutcomes(w) :
       IF raced
         THEN Raise(w, engineErr) /\ UNCHANGED << session, tree, lastCallback >>
         ELSE /\ session' = CreateView(session, "clipboard")
              /\ tree' = tree \cup {<< "clipboard", "" >>}
              /\ lastCallback' = Callback("add_leaf", w)
              /\ workers' = StartExclusive(Finish(workers, w),
                   Worker("load_metadata", "start", NoQ, FALSE, NoF, "clipboard", 0))
              /\ UNCHANGED << appError, appRunning >>
  /\ UNCHANGED << pd, engineErr, clidbVars, clipboard, max_rows, nops, loading, grid, note,
                  results_csv >>

\* The import of loql.app and on_mount / set_up_database.  Without pandas
\* lazy_import raises ImportError while loql.app is imported and the process
\* ends there; with it the app has the connection, the helper view, with
\* --clipboard the load_clipboard worker, and for a path that is a file
\* (paths: the paths the run may be given, NoF for a directory) the open_file
\* worker, which as an exclusive worker cancels the one before it.
LoqlStart(paths) ==
  /\ pd \in BOOLEAN
  /\ engineErr \in EngineErrorClasses
  /\ clipboard \in BOOLEAN
  /\ session = IF pd THEN Connect ELSE [k \in Keys |-> NoObj]
  /\ \E f \in paths, cond \in {"ok", "malformed"} :
       LET first == IF clipboard
                      THEN {Worker("load_clipboard", "start", NoQ, FALSE, NoF, "", 0)}
                      ELSE {}
       IN workers = IF ~pd THEN {}
                    ELSE IF f = NoF THEN first
                    ELSE StartExclusive(first,
                           [Worker("open_file", "start", NoQ, FALSE, f, "", 0)
                              EXCEPT !.cond = cond])
  /\ loading = FALSE
  /\ grid = HelpGrid
  /\ tree = {}
  /\ note = ""
  /\ lastCallback = NoCallback
  /\ results_csv = NoFile
  /\ appError = IF pd THEN NoError ELSE [exc |-> "ImportError", kind |-> "import"]
  /\ appRunning = pd
  /\ nops = 0
  /\ ClidbIdle

\* a run on a directory with the default --max-rows
InitLoql == LoqlStart({NoF}) /\ max_rows = DefaultMaxRows

NextLoql ==
  \/ ActionOpenFile
  \/ ActionExecuteQuery
  \/ ActionClear
  \/ OnTreeNodeSelected
  \/ \E w \in workers : OpenFileEnter(w)
  \/ \E w \in workers : OpenFileReturn(w)
  \/ \E w \in workers : LoadMetadataEnter(w)
  \/ \E w \in workers : LoadMetadataSchemas(w)
  \/ \E w \in workers : LoadMetadataColumns(w)
  \/ \E w \in workers : ExecuteQueryEnter(w)
  \/ \E w \in workers : ExecuteQueryReturn(w)
  \/ \E w \in workers : ExecuteQueryDdl(w)
  \/ \E w \in workers : ExecuteQueryFetch(w)
  \/ \E w \in workers : WriteResults(w)
  \/ \E w \in workers : LoadClipboardRead(w)
  \/ \E w \in workers : LoadClipboardRegister(w)

SpecLoql == InitLoql /\ [][NextLoql]_vars

\* ------------------------------------------- loql: a user who runs queries
\* The app started on the file Data.csv under a user who lets the start-up
\* work finish and then only runs queries, one after the other without
\* waiting for the one before (ctrl+c may be pressed at any time).
Started == \A w \in workers : w.seq # 0

QueryingExecuteQuery == Started /\ ActionExecuteQuery

InitLoqlQuerying == LoqlStart({File("Data", ".csv")}) /\ max_rows = DefaultMaxRows

NextLoqlQuerying ==
  \/ QueryingExecuteQuery
  \/ ActionClear
  \/ \E w \in workers : OpenFileEnter(w)
  \/ \E w \in workers : OpenFileReturn(w)
  \/ \E w \in workers : LoadMetadataEnter(w)
  \/ \E w \in workers : LoadMetadataSchemas(w)
  \/ \E w \in workers : LoadMetadataColumns(w)
  \/ \E w \in workers : ExecuteQueryEnter(w)
  \/ \E w \in workers : ExecuteQueryReturn(w)
  \/ \E w \in workers : ExecuteQueryDdl(w)
  \/ \E w \in workers : ExecuteQueryFetch(w)
  \/ \E w \in workers : WriteResults(w)
  \/ \E w \in workers : LoadClipboardRead(w)
  \/ \E w \in workers : LoadClipboardRegister(w)

SpecLoqlQuerying == InitLoqlQuerying /\ [][NextLoqlQuerying]_vars

\* ------------------------------------------- loql: a user who waits
\* The same app under a user who starts the next operation only when no worker
\* is left from the last one (ctrl+c may still be pressed at any time), and
\* who chooses --max-rows and the path.
Idle == workers = {}

PatientOpenFile == Idle /\ ActionOpenFile

PatientExecuteQuery == Idle /\ ActionExecuteQuery

PatientTreeNodeSelected == Idle /\ OnTreeNodeSelected

InitLoqlPatient == LoqlStart(Files \cup {NoF}) /\ max_rows \in 0..MaxRowLimit

NextLoqlPatient ==
  \/ PatientOpenFile
  \/ PatientExecuteQuery
  \/ PatientTreeNodeSelected
  \/ ActionClear
  \/ \E w \in workers : OpenFileEnter(w)
  \/ \E w \in workers : OpenFileReturn(w)
  \/ \E w \in workers : LoadMetadataEnter(w)
  \/ \E w \in workers : LoadMetadataSchemas(w)
  \/ \E w \in workers : LoadMetadataColumns(w)
  \/ \E w \in workers : ExecuteQueryEnter(w)
  \/ \E w \in workers : ExecuteQueryReturn(w)
  \/ \E w \in workers : ExecuteQueryDdl(w)
  \/ \E w \in workers : ExecuteQueryFetch(w)
  \/ \E w \in workers : WriteResults(w)
  \/ \E w \in workers : LoadClipboardRead(w)
  \/ \E w \in workers : LoadClipboardRegister(w)

SpecLoqlPatient == InitLoqlPatient /\ [][NextLoqlPatient]_vars

\* ------------------------------------------------------------------ claims
\* requests enqueued and not yet answered to a handler
Outstanding ==
  Len(query_queue) + (IF dbPc = "exec" THEN 1 ELSE 0) + Len(result_queue)

\* C2: in the separate-process variant at most one request is outstanding at
\* any time, the worker takes the requests in the order they were enqueued,
\* and the response a handler takes answers the request that handler enqueued.
C2_OneOutstandingInOrder ==
  /\ Outstanding <= 1
  /\ \A i \in 1..Len(query_queue) : query_queue[i].id = nserved + i
  /\ (dbPc = "exec" => dbReq.id = nserved)
  /\ delivered.resp.req.id = delivered.mine

\* a file was loaded, its follow-up query and a third request were answered
C2_Witness ==
  /\ delivered.mine = 3
  /\ delivered.resp.req.id = 3
  /\ uiText # NoQ
  /\ nserved = 3

\* C4: every request the worker has taken from the request queue is answered:
\* the handler that enqueued it never waits on a worker that has died.
C4_EveryRequestAnswered ==
  ~(ctlPc \in {"await_query", "await_file"} /\ nserved > 0 /\ dbPc = "crashed")

\* C5: the catalog snapshot delivered to the UI is the set of views and tables
\* defined in the session when the operation it accompanies completed (here
\* with the helper view still the catalog view).
C5_SnapshotIsSession ==
  (uiViews # NoViews /\ DataCell \notin uiViews) => uiViews = doneDefined

\* C7: when the UI has exited after requests were served, the worker has left
\* its loop on the shutdown sentinel and no request is in flight.
C7_WorkerStoppedAtExit ==
  (~appRunning /\ nserved > 0) => (dbPc = "stopped" /\ query_queue = << >>)

\* the view name the specification gives a file: the lower-cased stem, without
\* the inner .parquet of a .parquet.gz
SpecViewName(f) ==
  IF f.ext = ".gz" /\ EndsWithParquet(Lower(f.stem))
    THEN StripParquet(Lower(f.stem))
    ELSE Lower(f.stem)

LoadAnswered ==
  /\ delivered.resp.req.type = "FileObj"
  /\ delivered.resp.result.tag = "Str"

\* C8: a successful load returns the lower-cased stem as the view name,
\* registers that one view, and the catalog read after it lists the name
\* (here with the helper view still the catalog view).
C8_LoadRegistersLowerStem ==
  (LoadAnswered /\ DataCell \notin delivered.resp.views) =>
     /\ delivered.resp.result.val = SpecViewName(delivered.resp.req.f)
     /\ SpecViewName(delivered.resp.req.f) \in delivered.resp.views
     /\ delivered.resp.defined \ delivered.resp.before \subseteq {SpecViewName(delivered.resp.req.f)}

\* C9: a load of a file that was loaded before returns the name the earlier
\* load gave, removes no other view, and the catalog read after it lists
\* that name.
C9_ReloadOverwrites ==
  (LoadAnswered /\ delivered.resp.prev # "") =>
     /\ delivered.resp.result.val = delivered.resp.prev
     /\ delivered.resp.before \subseteq delivered.resp.defined
     /\ delivered.resp.result.val \in delivered.resp.views

\* C10: a CREATE TABLE t that the engine executed yields no result to show, and
\* the catalog snapshot delivered with it lists t (here with the helper view
\* still the catalog view).
C10_CreateTableListed ==
  ( /\ delivered.resp.req.type = "str"
    /\ delivered.resp.req.q.op = "create_table"
    /\ delivered.resp.result.tag = "None"
    /\ DataCell \notin uiViews ) =>
     delivered.resp.req.q.name \in uiViews

\* C1: in the in-process variant at most one worker thread is inside a call
\* on the shared connection at any time.
C1_NoOverlappingEngineCalls == Cardinality(InEngine(workers)) <= 1

\* C3: no error of a load or of a query leaves its worker uncaught and ends
\* the session.
C3_LoadAndQueryErrorsCaught == appError.kind \notin {"open_file", "execute_query"}

\* C6: no update_results, update_metadata or notify_complete call comes from
\* a worker that action_clear has cancelled.
C6_ClearedWorkDiscarded ==
  ~( /\ lastCallback.cleared
     /\ lastCallback.fn \in {"update_results", "update_metadata", "notify_complete"} )

\* C11: a malformed query the worker executes is answered, after the one call
\* of the engine, with an error result that carries the engine's message
\* unmodified, and the catalog is as it was before the query.
C11_MalformedQueryIsError ==
  [][ ( /\ dbPc = "exec"
        /\ dbReq.type = "str"
        /\ dbReq.q.op = "bad"
        /\ dbPc' # "exec" ) =>
      ( /\ session' = session
        /\ Len(result_queue') = Len(result_queue) + 1
        /\ result_queue'[Len(result_queue')].result
             = R("QueryError", EngineMessage(dbReq.q)) ) ]_vars

\* the suffix the specification resolves for a file, and the suffixes it
\* recognises
SpecFileType(f) ==
  IF f.ext = ".gz" /\ EndsWithParquet(Lower(f.stem)) THEN ".parquet" ELSE f.ext

Recognised(f) == SpecFileType(f) \in {".csv", ".parquet", ".json", ".jsonl", ".xls", ".xlsx"}

\* C12: a load of a file whose extension is not recognised is answered with an
\* error that is neither the load failure's nor the missing dependency's,
\* whether or not pandas is there, and leaves the catalog as it was.
C12_UnsupportedFormatClassified ==
  (delivered.resp.req.type = "FileObj" /\ ~Recognised(delivered.resp.req.f)) =>
     /\ delivered.resp.result.tag = "QueryError"
     /\ delivered.resp.result.val \notin {"Failed to load", "Please install"}
     /\ delivered.resp.defined = delivered.resp.before

\* C13: the grid of a query over a source with more rows than config.max_rows
\* holds exactly config.max_rows rows and the warning was notified with it;
\* the file a save query wrote holds all the rows of its source.
C13_LimitUnlessSave ==
  /\ (grid.shows = "rows" /\ Len(Relation(grid.q.name)) > max_rows) =>
        (Len(grid.rows) = max_rows /\ grid.warned)
  /\ results_csv.seq > 0 =>
        Len(results_csv.lines) = 1 + Len(Relation(results_csv.q.name))

\* the grid shows the limited rows of "data" and the file holds all of them
C13_Witness ==
  /\ grid.shows = "rows"
  /\ grid.q.name = "data"
  /\ Len(Relation("data")) > max_rows
  /\ Len(grid.rows) = max_rows
  /\ grid.warned
  /\ results_csv.seq > grid.seq
  /\ results_csv.q.name = "data"
  /\ Len(results_csv.lines) = 1 + Len(Relation("data"))

\* C14: once written, results.csv holds the header row of the result's column
\* names, then one line per row of the result, in the result's order and all
\* of them, and nothing else; before that it holds nothing.
C14_ExportIsHeaderThenAllRows ==
  IF results_csv.seq > 0
    THEN results_csv.lines
           = << Columns(results_csv.q.name) >> \o Relation(results_csv.q.name)
    ELSE results_csv = NoFile

\* a file was loaded, a table created by a statement, and the save of a
\* query over the file's view has completed
C14_Witness ==
  /\ Idle
  /\ session["data"].kind = "view"
  /\ session["t"].kind = "table"
  /\ note = "Success"
  /\ results_csv.seq = nops
  /\ results_csv.q = Q("select", "data")
  /\ results_csv.lines = << Columns("data") >> \o Relation("data")

\* C15: a failure of open or write in write_results never ends the session
\* (it is notified as an error instead).
C15_ExportFailureNotified == appError.kind # "write_results"

\* C16: without pandas the process still starts: it never ends on the
\* ImportError of the import of pandas.
C16_StartsWithoutPandas == ~(~pd /\ ~appRunning /\ appError.kind = "import")

\* the response to a query that returned rows
RowsAnswered ==
  /\ delivered.resp.req.type = "str"
  /\ delivered.resp.result.tag = "Table"

\* the first n characters of a string form
Prefix(value, n) == [i \in 1..(IF Len(value) < n THEN Len(value) ELSE n) |-> value[i]]

\* C17 as stated: for a query that returned rows handle_query emits a
\* DatabaseViewsUpdate and then, last, a QueryResult whose table has the
\* result's columns and whose cells are the string forms of the result's
\* values in row order.
C17_CellsAreStringForms ==
  RowsAnswered =>
     /\ delivered.emits = << "DatabaseViewsUpdate", "QueryResult" >>
     /\ delivered.resp.result.columns = Columns(delivered.resp.req.q.name)
     /\ \A i \in 1..Len(delivered.resp.result.cells) :
          delivered.resp.result.cells[i] = Relation(delivered.resp.req.q.name)[i]

\* C17 amended: the same emissions and columns; the table has the first
\* MAX_RESULT_ROWS rows of the result, and each cell is the first
\* MAX_CELL_LENGTH characters of the string form of its value.
C17_CellsAreTruncatedStringForms ==
  RowsAnswered =>
     /\ delivered.emits = << "DatabaseViewsUpdate", "QueryResult" >>
     /\ delivered.resp.result.columns = Columns(delivered.resp.req.q.name)
     /\ Len(delivered.resp.result.cells)
          = ( IF Len(Relation(delivered.resp.req.q.name)) < MAX_RESULT_ROWS
                THEN Len(Relation(delivered.resp.req.q.name))
                ELSE MAX_RESULT_ROWS )
     /\ \A i \in 1..Len(delivered.resp.result.cells) :
          delivered.resp.result.cells[i]
            = Prefix(Relation(delivered.resp.req.q.name)[i], MAX_CELL_LENGTH)

\* the rows of the view of Data.csv were answered, one value longer than a cell
C17_Witness ==
  /\ RowsAnswered
  /\ Lower(delivered.resp.req.q.name) = "data"
  /\ delivered.emits = << "DatabaseViewsUpdate", "QueryResult" >>
  /\ \E i \in 1..Len(delivered.resp.result.cells) :
       Len(delivered.resp.result.cells[i]) < Len(Relation("data")[i])

\* C18: a worker of a file load, a query, a metadata refresh or an export is
\* cancelled by the start of another worker only when the one started runs
\* the same method.
C18_CancelsOnlySameClass ==
  [][ \A w \in workers :
        ( /\ w.kind \in {"open_file", "execute_query", "load_metadata", "write_results"}
          /\ ~w.cancelled
          /\ w \notin workers'
          /\ [w EXCEPT !.cancelled = TRUE] \in workers' ) =>
        \E x \in workers' \ workers : ~x.cancelled /\ x.kind = w.kind ]_vars

\* C19: with --clipboard, a failure of the registration of the clipboard does
\* not leave the session without its worker before any request was served.
C19_ClipboardFailureNotFatal == ~(clipboard /\ nserved = 0 /\ dbPc = "crashed")

\* C20: the list of views delivered to the UI never contains the helper view
\* "schemas".
C20_HelperViewNotReported == "schemas" \notin uiViews

\* C21: a statement without a result set never fills the grid, and a relation
\* of zero rows is shown with the relation's columns, no rows and no
\* truncation warning, whatever the configured row limit.
C21_ZeroRowsNotTruncated ==
  /\ grid.shows = "rows" => grid.q.op = "select"
  /\ (grid.shows = "rows" /\ Len(Relation(grid.q.name)) = 0) =>
       ( /\ grid.columns = Columns(grid.q.name)
         /\ grid.rows = << >>
         /\ ~grid.warned )

\* C22: an empty query string is never passed to the engine, by the worker of
\* the process variant or by an execute_query worker of the in-process one.
C22_EmptyQueryNeverReachesEngine ==
  /\ ~(dbPc = "exec" /\ dbReq.type = "str" /\ dbReq.q.op = "empty")
  /\ \A w \in workers : w.kind = "execute_query" => w.q.op # "empty"

\* C23: every DatabaseViewsUpdate leaves the DatabaseView with the nodes it had
\* and a node for every reported view (the displayed set grows to the union
\* of the catalogs reported), and no step ever removes a node.
C23_DisplayedIsUnionOfReported ==
  [][ /\ database_view.views \subseteq database_view'.views
      /\ ( /\ ctlPc # "idle"
           /\ ctlPc' = "idle"
           /\ \E i \in 1..Len(delivered'.emits) : delivered'.emits[i] = "DatabaseViewsUpdate" ) =>
         database_view'.views = database_view.views \cup delivered'.resp.views ]_vars

\* C28: handle_database_views_update never raises, whatever names the reported
\* catalog contains.
C28_ViewsUpdateNeverRaises == ~database_view.raised

\* the response to a successful load of f was delivered to handle_open_file
LoadDelivered(f) ==
  /\ delivered.resp.req.type = "FileObj"
  /\ delivered.resp.req.f = f
  /\ delivered.resp.result.tag = "Str"

\* the response to the query select * from "<view of f>" was delivered
FollowUpDelivered(f) ==
  /\ delivered.resp.req.type = "str"
  /\ delivered.resp.req.q = SelectAll(ClidbViewName(f))

\* C24: while the session runs, every successful load handled by
\* handle_open_file is eventually followed by the answer to the query
\* select * from "<view>" of the view it loaded.
C24_LoadFollowedByQuery ==
  \A f \in Files :
    (appRunning /\ LoadDelivered(f)) ~> (FollowUpDelivered(f) \/ ~appRunning)

\* C25: whenever the application runs and no worker is running, the loading
\* indicator is false.
C25_LoadingResetWhenIdle == (appRunning /\ workers = {}) => ~loading

\* C26: the grid is never refilled with the result of a query submitted
\* before the one whose result it shows.
C26_LaterQueryWins == [][grid'.seq >= grid.seq]_vars

\* C27: once the session is set up the name "schemas" is the catalog view; no
\* load makes it a view of a file's data.
C27_HelperViewNeverReplaced ==
  session["schemas"] # NoObj => session["schemas"].def = "catalog"

====
